---- MODULE Spec2Model ----
(***************************************************************************)
(* prsm: a script manager (ScriptManager) holding deferred scripts         *)
(* (Script) in a BTreeMap keyed by usize, src/src/lib.rs.                  *)
(*                                                                         *)
(* Strings (&str, String) are sequences of Unicode code points; str::len   *)
(* is the UTF-8 byte length, Len is the number of characters.              *)
(***************************************************************************)
EXTENDS Integers, Sequences, FiniteSets, TLC

(***************************************************************************)
(* Bounds of the model.                                                    *)
(***************************************************************************)
\* Longest list of entries handed to prsm! / collected into the map.
MaxEntries == 2
\* Number of render / run / run_script calls made on one manager.
MaxOps == 2

(***************************************************************************)
(* Strings.                                                                *)
(***************************************************************************)
\* Bytes of one char in UTF-8.
Utf8Len(c) == IF c < 128 THEN 1 ELSE IF c < 2048 THEN 2 ELSE IF c < 65536 THEN 3 ELSE 4

RECURSIVE StrLen(_)
\* str::len: the length in bytes.
StrLen(s) == IF s = <<>> THEN 0 ELSE Utf8Len(Head(s)) + StrLen(Tail(s))

\* str::repeat of a one-char string.
Repeat(c, n) == [i \in 1..n |-> c]

RECURSIVE DisplayUsize(_)
\* Display of usize: decimal, no sign, no padding.
DisplayUsize(n) ==
    IF n < 10 THEN <<48 + n>>
    ELSE Append(DisplayUsize(n \div 10), 48 + (n % 10))

\* char::is_whitespace, as str::trim uses it.
IsWhitespace(c) ==
    \/ c \in 9..13
    \/ c \in {32, 133, 160, 5760, 8232, 8233, 8239, 8287, 12288}
    \/ c \in 8192..8202

RECURSIVE TrimStart(_)
TrimStart(s) ==
    IF s # <<>> /\ IsWhitespace(Head(s)) THEN TrimStart(Tail(s)) ELSE s

RECURSIVE TrimEnd(_)
TrimEnd(s) ==
    IF s # <<>> /\ IsWhitespace(s[Len(s)]) THEN TrimEnd(SubSeq(s, 1, Len(s) - 1)) ELSE s

\* str::trim
Trim(s) == TrimEnd(TrimStart(s))

IsDigit(c) == c \in 48..57

RECURSIVE DigitsValue(_, _)
DigitsValue(s, acc) ==
    IF s = <<>> THEN acc ELSE DigitsValue(Tail(s), acc * 10 + (Head(s) - 48))

\* str::parse::<usize>: an optional '+', then one or more ASCII digits.  The
\* inputs of the model stay far below usize::MAX, so PosOverflow does not occur.
ParseUsize(s) ==
    LET digits == IF s # <<>> /\ Head(s) = 43 /\ Len(s) > 1 THEN Tail(s) ELSE s
    IN  IF digits # <<>> /\ \A i \in 1..Len(digits) : IsDigit(digits[i])
        THEN [ok |-> TRUE, v |-> DigitsValue(digits, 0)]
        ELSE [ok |-> FALSE, v |-> 0]

(***************************************************************************)
(* Values: Option<&str>, Result, the failure values of the scripts.        *)
(***************************************************************************)
None == [some |-> FALSE, v |-> <<>>]
Some(n) == [some |-> TRUE, v |-> n]

Unit == [ty |-> "unit", n |-> 0, s |-> <<>>]
Usize(k) == [ty |-> "usize", n |-> k, s |-> <<>>]
Str(t) == [ty |-> "str", n |-> 0, s |-> t]

Ok(v) == [tag |-> "Ok", val |-> v]
Err(e) == [tag |-> "Err", val |-> e]
\* No call has returned yet.
NoResult == [tag |-> "None", val |-> Unit]

\* Debug of a failure value: a &str is quoted, a usize is as Display.
DebugFmt(e) == IF e.ty = "str" THEN <<34>> \o e.s \o <<34>> ELSE DisplayUsize(e.n)

\* Display of a failure value, which is what format!("{}", e) writes for a
\* Box<dyn PrsmDisplay> holding it.
DisplayFmt(e) == IF e.ty = "str" THEN e.s ELSE DisplayUsize(e.n)

(***************************************************************************)
(* The wrapped computations: the expressions `$f` handed to prsm_script!.  *)
(* A computation is [fn, a]: the function called and its argument (0 when  *)
(* it takes none).  The world w = [execs, argEvals, counter] is what the   *)
(* embedding application can observe: how often the computation of each    *)
(* supplied entry ran, how often its argument expression was evaluated,    *)
(* and an external counter.                                                *)
(***************************************************************************)
\* The value captured by the move closure z of tests::prsm_closure_capture.
b == 2

\* The functions of the tests and of the documentation.
TestFn(f) ==
    CASE f.fn = "x"      -> Ok(Unit)                 \* x() -> Ok(())
      [] f.fn = "z"      -> Err(Usize(f.a + 3))      \* z(a) -> Err(a + 3)
      [] f.fn = "zc"     -> Err(Usize(f.a + b))      \* move |a| Err(a + b)
      [] f.fn = "foo200" -> Ok(Usize(200))           \* foo() -> Ok(200)
      [] f.fn = "foo"    -> Err(Str(<<102, 97, 105, 108, 101, 100>>))  \* Err("failed")

\* A computation that increments an external counter and fails with its new
\* value (spec, section 8).
CounterFn(counter) == [res |-> Err(Usize(counter + 1)), counter |-> counter + 1]

HasArgs(f) == f.fn \in {"z", "zc"}

\* Evaluating `$f` for the entry supplied at position id: the argument
\* expression first, then the call.
Call(f, id, w) ==
    LET w1 == [w EXCEPT !.execs[id] = @ + 1,
                        !.argEvals[id] = IF HasArgs(f) THEN @ + 1 ELSE @]
    IN  IF f.fn = "tick"
        THEN LET t == CounterFn(w.counter)
             IN  [res |-> t.res, w |-> [w1 EXCEPT !.counter = t.counter]]
        ELSE [res |-> TestFn(f), w |-> w1]

(***************************************************************************)
(* Script.                                                                 *)
(***************************************************************************)
\* Script::new
ScriptNew(description, func) == [description |-> description, func |-> func]

\* The success payload handed on as it is.
MapUnitKeep(res) == res

\* Result::map(|_| ())
MapUnit(res) == IF res.tag = "Ok" THEN Ok(Unit) ELSE res

\* Result::map_err(|e| Box::new(e) as Box<dyn PrsmDisplay>): the box holds
\* the failure value, known from now on only as displayable.
MapErrBox(res) == IF res.tag = "Err" THEN Err([dyn |-> res.val]) ELSE res

\* Evaluating `$f` at construction as well (a macro that does not defer).
PrsmScriptEager(desc, f, id, w) ==
    [script |-> ScriptNew(desc, [f |-> f, id |-> id]), w |-> Call(f, id, w).w]

\* prsm_script!($desc, $f), expanded for the entry supplied at position id in
\* world w: the move closure is built, `$f` is not evaluated.
PrsmScript(desc, f, id, w) ==
    [script |-> ScriptNew(desc, [f |-> f, id |-> id]), w |-> w]

\* The closure boxed by prsm_script!, called.
ClosureCall(func, w) ==
    LET r == Call(func.f, func.id, w)
    IN  [res |-> MapErrBox(MapUnit(r.res)), raw |-> r.res, w |-> r.w]

\* A script that runs its closure once and answers Ok(()) from then on.
ScriptRunOnce(script, w) ==
    IF w.execs[script.func.id] > 0
    THEN [res |-> Ok(Unit), raw |-> Ok(Unit), w |-> w]
    ELSE ClosureCall(script.func, w)

\* Script::run
ScriptRun(script, w) == ClosureCall(script.func, w)

(***************************************************************************)
(* ScriptManager.                                                          *)
(***************************************************************************)
\* An insert that leaves a present key bound as it was.
BTreeInsertKeepFirst(m, k, v) ==
    [x \in (DOMAIN m) \cup {k} |-> IF x \in DOMAIN m THEN m[x] ELSE v]

\* BTreeMap::insert: a present key is rebound.
BTreeInsert(m, k, v) == [x \in (DOMAIN m) \cup {k} |-> IF x = k THEN v ELSE m[x]]

RECURSIVE CollectFrom(_, _)
\* FromIterator for BTreeMap: the pairs are inserted in the order supplied.
CollectFrom(m, pairs) ==
    IF pairs = <<>> THEN m
    ELSE CollectFrom(BTreeInsert(m, Head(pairs).idx, Head(pairs).script), Tail(pairs))

Collect(pairs) == CollectFrom(<<>>, pairs)

Min(S) == CHOOSE x \in S : \A y \in S : x <= y

RECURSIVE Ascending(_)
Ascending(S) == IF S = {} THEN <<>> ELSE <<Min(S)>> \o Ascending(S \ {Min(S)})

\* Iteration from the largest key down.
BTreeIterRev(m) ==
    LET up == Ascending(DOMAIN m) IN [i \in 1..Len(up) |-> up[Len(up) + 1 - i]]

\* Iterating a BTreeMap visits the keys in ascending order.
BTreeIter(m) == Ascending(DOMAIN m)

\* A manager that names itself "ScriptManager" whatever it is given.
ScriptManagerNewUnnamed(name, scripts) ==
    [name |-> <<83, 99, 114, 105, 112, 116, 77, 97, 110, 97, 103, 101, 114>>,
     scripts |-> scripts]

\* ScriptManager::new
ScriptManagerNew(name, scripts) ==
    [name |-> IF name.some THEN name.v
              ELSE <<83, 99, 114, 105, 112, 116, 77, 97, 110, 97, 103, 101, 114>>,
     scripts |-> scripts]

RECURSIVE ExpandEntries(_, _, _)
\* The array of (idx, prsm_script!(desc, f)) pairs of prsm!, its elements
\* evaluated left to right from position i on.
ExpandEntries(es, i, w) ==
    IF i > Len(es) THEN [pairs |-> <<>>, w |-> w]
    ELSE LET p == PrsmScript(es[i].desc, es[i].f, i, w)
             rest == ExpandEntries(es, i + 1, p.w)
         IN  [pairs |-> <<[idx |-> es[i].idx, script |-> p.script]>> \o rest.pairs,
              w |-> rest.w]

\* prsm! { [idx] desc => f, ... } and prsm! { Name { ... } }
Prsm(name, es, w) ==
    LET x == ExpandEntries(es, 1, w)
    IN  [sm |-> ScriptManagerNew(name, Collect(x.pairs)), w |-> x.w]

\* "========== {} =========="
Header(name) == Repeat(61, 10) \o <<32>> \o name \o <<32>> \o Repeat(61, 10)

\* "[{}] {}" and the newline of writeln!
EntryLine(idx, description) ==
    <<91>> \o DisplayUsize(idx) \o <<93, 32>> \o description \o <<10>>

RECURSIVE EntryLines(_, _)
EntryLines(scripts, keys) ==
    IF keys = <<>> THEN <<>>
    ELSE EntryLine(Head(keys), scripts[Head(keys)].description)
            \o EntryLines(scripts, Tail(keys))

\* impl Display for ScriptManager
Fmt(m) ==
    LET header == Header(m.name)
        footer == Repeat(61, StrLen(header))
    IN  header \o <<10>> \o EntryLines(m.scripts, BTreeIter(m.scripts)) \o footer

\* Result::map_err(|e| format!("{:?}", e))
MapErrFormatDebug(res) ==
    IF res.tag = "Err" THEN Err(Str(DebugFmt(res.val.dyn))) ELSE res

\* Result::map_err(|e| format!("{}", e))
MapErrFormat(res) ==
    IF res.tag = "Err" THEN Err(Str(DisplayFmt(res.val.dyn))) ELSE res

\* An absent key answered with Err("unknown script") instead of a panic.
InvokeOrErr(m, idx, w) ==
    IF idx \notin DOMAIN m.scripts
    THEN [panicked |-> FALSE,
          ret |-> Err(Str(<<117, 110, 107, 110, 111, 119, 110>>)),
          script |-> NoResult, raw |-> NoResult, w |-> w]
    ELSE LET r == ScriptRun(m.scripts[idx], w)
         IN  [panicked |-> FALSE, ret |-> MapErrFormat(r.res),
              script |-> r.res, raw |-> r.raw, w |-> r.w]

\* A failed script run a second time.
InvokeRetry(m, idx, w) ==
    IF idx \notin DOMAIN m.scripts
    THEN [panicked |-> TRUE, ret |-> NoResult,
          script |-> NoResult, raw |-> NoResult, w |-> w]
    ELSE LET r1 == ScriptRun(m.scripts[idx], w)
             r == IF r1.res.tag = "Err" THEN ScriptRun(m.scripts[idx], r1.w) ELSE r1
         IN  [panicked |-> FALSE, ret |-> MapErrFormat(r.res),
              script |-> r.res, raw |-> r.raw, w |-> r.w]

\* The script at the smallest key run before the one asked for.
InvokeFirstToo(m, idx, w) ==
    IF idx \notin DOMAIN m.scripts
    THEN [panicked |-> TRUE, ret |-> NoResult,
          script |-> NoResult, raw |-> NoResult, w |-> w]
    ELSE LET first == Min(DOMAIN m.scripts)
             w1 == IF first # idx THEN ScriptRun(m.scripts[first], w).w ELSE w
             r == ScriptRun(m.scripts[idx], w1)
         IN  [panicked |-> FALSE, ret |-> MapErrFormat(r.res),
              script |-> r.res, raw |-> r.raw, w |-> r.w]

\* self.scripts[&idx].run().map_err(|e| format!("{}", e)): indexing a
\* BTreeMap with an absent key panics before any script is run.
Invoke(m, idx, w) ==
    IF idx \notin DOMAIN m.scripts
    THEN [panicked |-> TRUE, ret |-> NoResult,
          script |-> NoResult, raw |-> NoResult, w |-> w]
    ELSE LET r == ScriptRun(m.scripts[idx], w)
         IN  [panicked |-> FALSE, ret |-> MapErrFormat(r.res),
              script |-> r.res, raw |-> r.raw, w |-> r.w]

(***************************************************************************)
(* The inputs.                                                             *)
(***************************************************************************)
\* The literals [idx] of the entries.
Keys == {2, 10}
\* The keys asked for: those, and 7, which no entry has.
ReqKeys == Keys \cup {7}

\* z(0), the closure z(5) with b captured, and the functions without arguments.
Computations ==
    {[fn |-> "x", a |-> 0], [fn |-> "z", a |-> 0], [fn |-> "zc", a |-> 5],
     [fn |-> "foo200", a |-> 0], [fn |-> "foo", a |-> 0], [fn |-> "tick", a |-> 0]}

\* The description literal written beside each computation.
DescOf(f) ==
    CASE f.fn = "x"      -> <<120>>                                     \* "x"
      [] f.fn = "z"      -> <<122>>                                     \* "z"
      [] f.fn = "zc"     -> <<122, 32, 99, 97, 112>>                    \* "z cap"
      [] f.fn = "foo200" -> <<102, 111, 111>>                           \* "foo"
      [] f.fn = "foo"    -> <<116, 101, 115, 116, 32, 115, 99, 114, 105, 112, 116>>
                                                                        \* "test script"
      [] f.fn = "tick"   -> <<116, 105, 99, 107>>                       \* "tick"

EntryPool == {[idx |-> k, desc |-> DescOf(f), f |-> f] : k \in Keys, f \in Computations}

RECURSIVE SeqsUpTo(_, _)
SeqsUpTo(S, n) ==
    IF n = 0 THEN {<<>>}
    ELSE LET shorter == SeqsUpTo(S, n - 1)
         IN  shorter \cup {Append(q, e) : q \in {t \in shorter : Len(t) = n - 1}, e \in S}

\* No name, "TestManager", and "Menü", whose last char takes two bytes.
Names ==
    {None,
     Some(<<84, 101, 115, 116, 77, 97, 110, 97, 103, 101, 114>>),
     Some(<<77, 101, 110, 252>>)}

\* What the operator's terminal gives run: "2\n", " +10\r\n", "7\n", "x\n",
\* end of input, and a failing stdin or stdout.
StdinInputs ==
    {[io |-> "ok", line |-> <<50, 10>>],
     [io |-> "ok", line |-> <<32, 43, 49, 48, 13, 10>>],
     [io |-> "ok", line |-> <<55, 10>>],
     [io |-> "ok", line |-> <<120, 10>>],
     [io |-> "ok", line |-> <<>>],
     [io |-> "stdin_err", line |-> <<>>],
     [io |-> "stdout_err", line |-> <<>>]}

(***************************************************************************)
(* The state.                                                              *)
(***************************************************************************)
VARIABLES
    pc,        \* "start": nothing built; "built": the manager exists; "panicked"
    nameArg,   \* the name handed to the construction, an Option
    entries,   \* the entries handed to the construction, in the order written
    sm,        \* the ScriptManager
    world,     \* what the computations did: [execs, argEvals, counter]
    ret,       \* what the last call of run / run_script returned
    last,      \* the last request: its kind and key, what `$f` and Script::run gave
    rendered,  \* the String the last formatting of the manager produced
    stdout,    \* everything written to standard output
    calls,     \* per key, the number of requests to run it
    ops        \* the number of calls made on the manager

vars == <<pc, nameArg, entries, sm, world, ret, last, rendered, stdout, calls, ops>>

NoManager == [name |-> <<>>, scripts |-> <<>>]
NoRequest == [op |-> "none", key |-> 0, script |-> NoResult, raw |-> NoResult]

Init ==
    /\ pc = "start"
    /\ nameArg \in Names
    /\ entries \in SeqsUpTo(EntryPool, MaxEntries)
    /\ sm = NoManager
    /\ world = [execs |-> [i \in 1..Len(entries) |-> 0],
                argEvals |-> [i \in 1..Len(entries) |-> 0],
                counter |-> 0]
    /\ ret = NoResult
    /\ last = NoRequest
    /\ rendered = <<>>
    /\ stdout = <<>>
    /\ calls = [k \in ReqKeys |-> 0]
    /\ ops = 0

\* let sm = prsm! { ... };
Construct ==
    /\ pc = "start"
    /\ LET r == Prsm(nameArg, entries, world)
       IN  /\ sm' = r.sm
           /\ world' = r.w
    /\ pc' = "built"
    /\ UNCHANGED <<nameArg, entries, ret, last, rendered, stdout, calls, ops>>

\* format!("{}", sm)
Render ==
    /\ pc = "built"
    /\ ops < MaxOps
    /\ rendered' = Fmt(sm)
    /\ last' = [NoRequest EXCEPT !.op = "render"]
    /\ ops' = ops + 1
    /\ UNCHANGED <<pc, nameArg, entries, sm, world, ret, stdout, calls>>

\* A run_script that takes the script out of the map to run it.
RunScriptDrain(idx) ==
    /\ pc = "built"
    /\ ops < MaxOps
    /\ LET r == Invoke(sm, idx, world)
       IN  /\ pc' = IF r.panicked THEN "panicked" ELSE "built"
           /\ ret' = r.ret
           /\ world' = r.w
           /\ last' = [op |-> "run_script", key |-> idx, script |-> r.script, raw |-> r.raw]
    /\ sm' = [sm EXCEPT !.scripts = [k \in (DOMAIN sm.scripts) \ {idx} |-> sm.scripts[k]]]
    /\ calls' = [calls EXCEPT ![idx] = @ + 1]
    /\ ops' = ops + 1
    /\ UNCHANGED <<nameArg, entries, rendered, stdout>>

\* sm.run_script(idx)
RunScript(idx) ==
    /\ pc = "built"
    /\ ops < MaxOps
    /\ LET r == Invoke(sm, idx, world)
       IN  /\ pc' = IF r.panicked THEN "panicked" ELSE "built"
           /\ ret' = r.ret
           /\ world' = r.w
           /\ last' = [op |-> "run_script", key |-> idx, script |-> r.script, raw |-> r.raw]
    /\ calls' = [calls EXCEPT ![idx] = @ + 1]
    /\ ops' = ops + 1
    /\ UNCHANGED <<nameArg, entries, sm, rendered, stdout>>

\* sm.run(), the terminal giving input
Run(input) ==
    /\ pc = "built"
    /\ ops < MaxOps
    /\ ops' = ops + 1
    /\ UNCHANGED <<nameArg, entries, sm, rendered>>
    /\ IF input.io = "stdout_err"
       THEN \* println! / flush panics
            /\ pc' = "panicked"
            /\ ret' = NoResult
            /\ last' = [NoRequest EXCEPT !.op = "run"]
            /\ UNCHANGED <<world, stdout, calls>>
       ELSE LET written == stdout \o Fmt(sm) \o <<10, 10>>
                               \o <<69, 110, 116, 101, 114, 32, 115, 99, 114, 105, 112,
                                    116, 32, 73, 68, 58, 32>>
                opt == ParseUsize(Trim(input.line))
            IN  /\ stdout' = written
                /\ IF input.io = "stdin_err" \/ ~opt.ok
                   THEN \* read_line or parse failed: expect panics
                        /\ pc' = "panicked"
                        /\ ret' = NoResult
                        /\ last' = [NoRequest EXCEPT !.op = "run"]
                        /\ UNCHANGED <<world, calls>>
                   ELSE LET r == Invoke(sm, opt.v, world)
                        IN  /\ pc' = IF r.panicked THEN "panicked" ELSE "built"
                            /\ ret' = r.ret
                            /\ world' = r.w
                            /\ last' = [op |-> "run", key |-> opt.v,
                                        script |-> r.script, raw |-> r.raw]
                            /\ calls' = [calls EXCEPT ![opt.v] = @ + 1]

Next ==
    \/ Construct
    \/ Render
    \/ \E idx \in ReqKeys : RunScript(idx)
    \/ \E input \in StdinInputs : Run(input)

Spec == Init /\ [][Next]_vars

(***************************************************************************)
(* Properties.                                                             *)
(***************************************************************************)
Invoked == last.op \in {"run", "run_script"} /\ last.raw.tag # "None"

\* The computation bound to a present key.
FnAt(k) == sm.scripts[k].func.f
IdAt(k) == sm.scripts[k].func.id

\* The lines of a text: the runs of chars between newlines.
Lines(s) ==
    LET nl == {i \in 1..Len(s) : s[i] = 10}
        \* the position of the k-th newline; 0 before the text, Len(s) + 1 after it
        At(k) == IF k = 0 THEN 0
                 ELSE IF k > Cardinality(nl) THEN Len(s) + 1
                 ELSE CHOOSE p \in nl : Cardinality({q \in nl : q <= p}) = k
    IN  [k \in 1..(Cardinality(nl) + 1) |-> SubSeq(s, At(k - 1) + 1, At(k) - 1)]

\* The lines between the header and the footer.
Body(s) == SubSeq(Lines(s), 2, Len(Lines(s)) - 1)

\* The number written between '[' and ']' at the start of an entry line.
KeyOfLine(l) ==
    LET close == CHOOSE i \in 1..Len(l) : l[i] = 93 /\ \A j \in 1..(i - 1) : l[j] # 93
    IN  DigitsValue(SubSeq(l, 2, close - 1), 0)

\* The text after "[key] " in an entry line.
DescOfLine(l) ==
    LET close == CHOOSE i \in 1..Len(l) : l[i] = 93 /\ \A j \in 1..(i - 1) : l[j] # 93
    IN  SubSeq(l, close + 2, Len(l))

WellFormedLine(l) ==
    /\ Len(l) >= 4
    /\ l[1] = 91
    /\ \E i \in 3..Len(l) :
          /\ l[i] = 93
          /\ \A j \in 2..(i - 1) : IsDigit(l[j])
          /\ i < Len(l) /\ l[i + 1] = 32

Contains(s, t) == \E i \in 0..(Len(s) - Len(t)) : SubSeq(s, i + 1, i + Len(t)) = t

DistinctKeys == \A i, j \in 1..Len(entries) : i # j => entries[i].idx # entries[j].idx

DefaultLabel == <<83, 99, 114, 105, 112, 116, 77, 97, 110, 97, 103, 101, 114>>
TestManagerLabel == <<84, 101, 115, 116, 77, 97, 110, 97, 103, 101, 114>>
TenEquals == <<61, 61, 61, 61, 61, 61, 61, 61, 61, 61>>

RECURSIVE SumOver(_, _)
SumOver(f, S) ==
    IF S = {} THEN 0
    ELSE LET x == CHOOSE y \in S : TRUE IN f[x] + SumOver(f, S \ {x})

TotalExecs(w) == SumOver(w.execs, DOMAIN w.execs)

\* C1: when the wrapped computation returns a failure value e, Script::run
\* returns a failure that renders as e does, and run / run_script return that
\* text as the failure string: z(0) gives "3", the closure with b = 2 called
\* with 5 gives "7", Err("failed") gives "failed".
C1_FailureText ==
    (Invoked /\ last.raw.tag = "Err") =>
        /\ last.script.tag = "Err"
        /\ last.script.val.dyn = last.raw.val
        /\ ret.tag = "Err"
        /\ ret.val.ty = "str"
        /\ LET f == FnAt(last.key)
           IN  /\ (f.fn = "z" /\ f.a = 0) => ret.val.s = <<51>>
               /\ (f.fn = "zc" /\ f.a = 5) => ret.val.s = <<55>>
               /\ f.fn = "foo" => ret.val.s = <<102, 97, 105, 108, 101, 100>>
               /\ last.raw.val.ty = "str" => ret.val.s = last.raw.val.s
               /\ last.raw.val.ty = "usize" =>
                      /\ \A i \in 1..Len(ret.val.s) : IsDigit(ret.val.s[i])
                      /\ DigitsValue(ret.val.s, 0) = last.raw.val.n

C1_Witness ==
    /\ last.op = "run"
    /\ last.raw = Err(Usize(7))
    /\ ret = Err(Str(<<55>>))

\* C2: when the wrapped computation returns success, Script::run and the
\* manager return Ok(()) whatever payload the computation produced.
C2_PayloadDiscarded ==
    (Invoked /\ last.raw.tag = "Ok") =>
        /\ last.script = Ok(Unit)
        /\ ret = Ok(Unit)

C2_Witness ==
    /\ Invoked
    /\ last.raw = Ok(Usize(200))
    /\ ret = Ok(Unit)

\* C3: as long as no script was requested to run, no computation and no
\* argument expression has been evaluated: construction and formatting
\* execute nothing.
C3_ConstructionDefers ==
    (\A k \in ReqKeys : calls[k] = 0) =>
        /\ \A i \in 1..Len(entries) : world.execs[i] = 0 /\ world.argEvals[i] = 0
        /\ world.counter = 0

C3_Witness ==
    /\ pc = "built"
    /\ Len(entries) >= 2
    /\ \E i \in 1..Len(entries) : HasArgs(entries[i].f)
    /\ \A k \in ReqKeys : calls[k] = 0
    /\ TotalExecs(world) = 0

\* C4: the computation bound to a key has run exactly as many times as the key
\* was requested, and a computation that fails with the value of an external
\* counter it increments fails, each time, with the number of increments so far.
C4_NoMemoization ==
    pc # "start" =>
        /\ \A k \in DOMAIN sm.scripts : world.execs[IdAt(k)] = calls[k]
        /\ LET ticks == {k \in DOMAIN sm.scripts : FnAt(k).fn = "tick"}
           IN  /\ world.counter = SumOver(calls, ticks)
               /\ (Invoked /\ last.key \in ticks) =>
                      ret = Err(Str(DisplayUsize(SumOver(calls, ticks))))

C4_Witness ==
    /\ pc = "built"
    /\ \E k \in DOMAIN sm.scripts :
          /\ FnAt(k).fn = "tick"
          /\ calls[k] = 2
          /\ world.execs[IdAt(k)] = 2
    /\ world.counter = 2
    /\ ret = Err(Str(<<50>>))

\* C5: for a manager built from a non-empty list of entries with distinct
\* keys, the rendered text has, between header and footer, one line
\* "[key] description" per entry, each key once, the keys strictly ascending
\* whatever the order the entries were supplied in.
C5_RenderAscending ==
    (rendered # <<>> /\ entries # <<>> /\ DistinctKeys) =>
        LET body == Body(rendered)
        IN  /\ Len(body) = Len(entries)
            /\ \A j \in 1..Len(body) : WellFormedLine(body[j])
            /\ \A i \in 1..Len(entries) :
                  Cardinality({j \in 1..Len(body) :
                                  KeyOfLine(body[j]) = entries[i].idx}) = 1
            /\ \A i \in 1..Len(entries) :
                  \E j \in 1..Len(body) :
                      /\ KeyOfLine(body[j]) = entries[i].idx
                      /\ DescOfLine(body[j]) = entries[i].desc
            /\ \A i, j \in 1..Len(body) :
                  i < j => KeyOfLine(body[i]) < KeyOfLine(body[j])

C5_Witness ==
    /\ rendered # <<>>
    /\ Len(entries) >= 2
    /\ DistinctKeys
    /\ entries[1].idx > entries[2].idx
    /\ Len(Body(rendered)) = Len(entries)

\* C6: the header line and the footer line of the rendered text have the same
\* number of characters.
C6_HeaderFooterWidth ==
    rendered # <<>> =>
        LET ls == Lines(rendered)
        IN  Len(ls[1]) = Len(ls[Len(ls)])

\* C7: a manager built without a name is named "ScriptManager" and renders
\* the header "========== ScriptManager =========="; a manager built with a
\* name has that name and renders it, and not the default label, in its header.
C7_Name ==
    pc # "start" =>
        /\ ~nameArg.some =>
              /\ sm.name = DefaultLabel
              /\ rendered # <<>> =>
                    Lines(rendered)[1] = TenEquals \o <<32>> \o DefaultLabel \o <<32>> \o TenEquals
        /\ nameArg.some =>
              /\ sm.name = nameArg.v
              /\ rendered # <<>> =>
                    /\ Lines(rendered)[1] = TenEquals \o <<32>> \o nameArg.v \o <<32>> \o TenEquals
                    /\ ~Contains(Lines(rendered)[1], DefaultLabel)

C7_Witness ==
    /\ nameArg = Some(TestManagerLabel)
    /\ sm.name = TestManagerLabel
    /\ rendered # <<>>
    /\ Contains(Lines(rendered)[1], TestManagerLabel)

\* C8: a request to run a key the manager does not hold panics: the call
\* returns nothing, neither Ok nor Err, and no computation is executed.
C8_UnknownKeyPanics ==
    [][(calls' # calls /\ last'.key \notin DOMAIN sm.scripts) =>
          /\ pc' = "panicked"
          /\ ret' = NoResult
          /\ world' = world]_vars

C8_Witness ==
    /\ pc = "panicked"
    /\ last.op = "run_script"
    /\ last.key \notin DOMAIN sm.scripts
    /\ calls[last.key] = 1
    /\ ret = NoResult
    /\ TotalExecs(world) >= 1

\* C9: a request to run a present key whose computation fails executes that
\* computation once, executes no other, and returns Err.
C9_FailureSurfacedOnce ==
    [][(calls' # calls /\ last'.raw.tag = "Err") =>
          /\ ret'.tag = "Err"
          /\ pc' = "built"
          /\ world'.execs[IdAt(last'.key)] = world.execs[IdAt(last'.key)] + 1
          /\ TotalExecs(world') = TotalExecs(world) + 1]_vars

C9_Witness ==
    /\ Invoked
    /\ last.raw.tag = "Err"
    /\ ret.tag = "Err"
    /\ calls[last.key] = 1
    /\ world.execs[IdAt(last.key)] = 1

\* The name, the keys and each key's description.
RegistryView(m) ==
    [name |-> m.name,
     descriptions |-> [k \in DOMAIN m.scripts |-> m.scripts[k].description]]

\* C10: once built, the manager's name, its keys and each key's description
\* never change, whatever is rendered or run.
C10_ReadOnly ==
    [][pc = "built" => RegistryView(sm') = RegistryView(sm)]_vars

C10_Witness ==
    /\ pc = "built"
    /\ ops >= 2
    /\ rendered # <<>>
    /\ ret.tag = "Err"
    /\ DOMAIN sm.scripts # {}

\* The position of the last entry supplied with key k.
LastWith(k) ==
    CHOOSE i \in 1..Len(entries) :
        /\ entries[i].idx = k
        /\ \A j \in (i + 1)..Len(entries) : entries[j].idx # k

SuppliedKeys == {entries[i].idx : i \in 1..Len(entries)}

\* C11: entries supplied with the same key build a manager without a panic;
\* the manager holds one entry per key, the one supplied last: its description
\* is the one rendered, its computation the only one a request for the key
\* runs, and an entry supplied earlier with that key never runs.
C11_LastWriteWins ==
    pc # "start" =>
        /\ (ops = 0 => pc = "built" /\ stdout = <<>>)
        /\ DOMAIN sm.scripts = SuppliedKeys
        /\ \A k \in SuppliedKeys :
              /\ sm.scripts[k].description = entries[LastWith(k)].desc
              /\ FnAt(k) = entries[LastWith(k)].f
              /\ world.execs[LastWith(k)] = calls[k]
        /\ \A i \in 1..Len(entries) :
              i # LastWith(entries[i].idx) => world.execs[i] = 0
        /\ rendered # <<>> =>
              LET body == Body(rendered)
              IN  /\ Len(body) = Cardinality(SuppliedKeys)
                  /\ \A k \in SuppliedKeys :
                        \E j \in 1..Len(body) :
                            /\ KeyOfLine(body[j]) = k
                            /\ DescOfLine(body[j]) = entries[LastWith(k)].desc
                            /\ \A j2 \in 1..Len(body) :
                                  KeyOfLine(body[j2]) = k => j2 = j

C11_Witness ==
    /\ pc = "built"
    /\ Len(entries) >= 2
    /\ entries[1].idx = entries[2].idx
    /\ entries[1].desc # entries[2].desc
    /\ rendered # <<>>
    /\ Len(Body(rendered)) = 1
    /\ DescOfLine(Body(rendered)[1]) = entries[2].desc
    /\ calls[entries[2].idx] = 1
    /\ world.execs[1] = 0
    /\ world.execs[2] = 1

\* C12: a request to run a present key executes the computation bound to that
\* key, once, and the computation of no other entry; formatting the manager
\* (a render, or the menu run prints) executes none.  The external counter
\* moves only when the computation run is the one that increments it.
C12_Isolation ==
    [][/\ (calls' # calls /\ last'.key \in DOMAIN sm.scripts) =>
            LET id == IdAt(last'.key)
            IN  /\ world'.execs[id] = world.execs[id] + 1
                /\ \A i \in 1..Len(entries) :
                      i # id => /\ world'.execs[i] = world.execs[i]
                                /\ world'.argEvals[i] = world.argEvals[i]
                /\ FnAt(last'.key).fn # "tick" => world'.counter = world.counter
       /\ calls' = calls => world' = world
       /\ rendered' # rendered => world' = world]_vars

C12_Witness ==
    /\ pc = "built"
    /\ Len(entries) >= 2
    /\ DistinctKeys
    /\ rendered # <<>>
    /\ Invoked
    /\ world.execs[IdAt(last.key)] = 1
    /\ \E i \in 1..Len(entries) : i # IdAt(last.key) /\ world.execs[i] = 0
    /\ TotalExecs(world) = 1

====
